---- MODULE Spec2Model ----
(***************************************************************************)
(* A model of the bounded-concurrency TaskQueue (src/shopifyService.ts,    *)
(* lines 362-403) and of the image ingestion built on it                   *)
(* (src/uploadService.ts, with uploadMedia / attachImageToProduct of       *)
(* src/shopifyService.ts and the /upload-image handler of src/app.ts).     *)
(*                                                                         *)
(* The program runs on one event loop: an action of the model is one run   *)
(* of JavaScript from one suspension point (an await, a promise reaction)  *)
(* to the next.  Units of work are numbered by the order of the add()      *)
(* calls: unit k is the task passed to the k-th add().                     *)
(***************************************************************************)
EXTENDS Naturals, Sequences, FiniteSets

\* ---------------------------------------------------------------- bounds
\* Number of add() calls a behaviour makes on the generic queue.
MaxUnits == 4
\* Largest concurrency limit a generic TaskQueue is constructed with.
MaxConcurrency == 2
\* Number of /upload-image requests a behaviour makes.
MaxUploads == 1
\* Number of /enqueue-task requests a behaviour makes.
MaxRequests == 2

\* ------------------------------------------------------ program constants
\* Mutant of maxAttempts: one attempt more.
maxAttemptsOneMore == 2 + 1

\* const maxAttempts = 2 (enqueueImageUpload)
maxAttempts == 2
\* Mutant of imageUploadConcurrency: one slot more.
imageUploadConcurrencyOneMore == 3 + 1

\* export const imageUploadQueue = new TaskQueue(3)
imageUploadConcurrency == 3

Units == 1..MaxUnits

\* No resource reference: null, undefined or the empty string.
NoRef == <<>>

VARIABLES
    \* TaskQueue fields
    concurrency,    \* this.concurrency
    running,        \* this.running
    queue,          \* this.queue: the QueueItems, each named by its unit
    \* one entry per unit of work
    task,           \* which closure the unit is: "none", "unit" or "ingest"
    phase,          \* "new", "queued", "started", "completed", "delivered", "released"
    taskResult,     \* how the promise of task() settled: "none", "ok", "err"
    promise,        \* the promise add() returned: "pending", "resolved", "rejected"
    settles,        \* number of resolve()/reject() calls made on that promise
    value,          \* the unit whose result or error settled that promise, 0 when none
    item,           \* the QueueItem runNext destructured when it started the unit
    starts,         \* number of times task() was invoked
    started,        \* the units in the order runNext started them
    \* the ingest closure and processImageUpload
    input,          \* the input string, by the three predicates the code asks
    attempts,       \* let attempts
    ipc,            \* where the closure is suspended
    branch,         \* the case of processImageUpload the last attempt took
    calls,          \* the external calls the current attempt issued, in order
    probe,          \* what the HEAD probe of the current attempt answered
    answers,        \* what phases 1, 2 and 3 of the current attempt answered
    failed,         \* number of attempts whose processImageUpload threw
    target,         \* uploadMedia's target.resourceUrl
    resourceUrl,    \* processImageUpload's resourceUrl
    response        \* status the /upload-image handler sent, 0 when none yet

queueVars == <<concurrency, running, queue>>
unitVars == <<task, phase, taskResult, promise, settles, value, item, starts, started>>
closureVars == <<attempts, ipc, branch, calls, probe, answers, failed, target, resourceUrl>>
vars == <<concurrency, running, queue, task, phase, taskResult, promise,
          settles, value, item, starts, started, input, attempts, ipc, branch, calls,
          probe, answers, failed, target, resourceUrl, response>>

\* ------------------------------------------------------------- the inputs
\* An input string matters to the code only through three tests; given
\* says whether the request body carries the field at all (when it does
\* not, the handler passes undefined on).
Inputs ==
    {in \in [b64 : BOOLEAN, exists : BOOLEAN, url : BOOLEAN, given : BOOLEAN] :
        ~in.given => ~in.b64 /\ ~in.exists /\ ~in.url}
NoInput == [b64 |-> FALSE, exists |-> FALSE, url |-> FALSE, given |-> FALSE]

\* input.startsWith("data:image/")
isBase64Image(in) == in.b64
\* fs.existsSync(input)
existsSync(in) == in.exists
\* new URL(input) does not throw
isValidUrl(in) == in.url

\* Mutant of classify: the URL test comes before the file test.
classifyUrlBeforeFile(in) ==
    IF isBase64Image(in) THEN "base64"
    ELSE IF isValidUrl(in) THEN "url"
    ELSE IF existsSync(in) THEN "file"
    ELSE "invalid"

\* The if / else-if chain of processImageUpload.
classify(in) ==
    IF isBase64Image(in) THEN "base64"
    ELSE IF existsSync(in) THEN "file"
    ELSE IF isValidUrl(in) THEN "url"
    ELSE "invalid"

\* ------------------------------------------------ the ingest closure, entry
\* Nothing has answered yet in this attempt.
NoAnswers == [stage |-> "none", upload |-> "none", attach |-> "none"]

Call(op, ref) == [op |-> op, ref |-> ref]

\* One iteration of the while loop up to the first suspension: attempts++,
\* then processImageUpload classifies the input and issues its first call.
\* n is the new value of attempts; readOk says whether fs.readFileSync
\* returns (it throws on a path that exists and is no readable file).
\* On undefined, input.startsWith throws a TypeError before any case.
\* The caller fixes input' before this is evaluated.
attempt(u, n, readOk) ==
    LET b == IF input'[u].given THEN classify(input'[u]) ELSE "typeError"
        reads == b = "file" /\ readOk
        first == IF b = "base64" \/ reads THEN <<Call("convert", NoRef)>>
                 ELSE IF b = "url" THEN <<Call("head", NoRef)>>
                 ELSE <<>>
        at == IF b = "base64" \/ reads THEN "convert"
              ELSE IF b = "url" THEN "head"
              ELSE "thrown"
    IN  /\ attempts' = [attempts EXCEPT ![u] = n]
        /\ branch' = [branch EXCEPT ![u] = b]
        /\ calls' = [calls EXCEPT ![u] = first]
        /\ ipc' = [ipc EXCEPT ![u] = at]
        /\ failed' = [failed EXCEPT ![u] = IF at = "thrown" THEN @ + 1 ELSE @]
        /\ target' = [target EXCEPT ![u] = NoRef]
        /\ resourceUrl' = [resourceUrl EXCEPT ![u] = NoRef]
        /\ probe' = [probe EXCEPT ![u] = "none"]
        /\ answers' = [answers EXCEPT ![u] = NoAnswers]

\* The task of /enqueue-task up to its first suspension: uploadMedia is
\* called and sends the stagedUploadsCreate request.
uploadDirect(u) ==
    /\ calls' = [calls EXCEPT ![u] = <<Call("stage", NoRef)>>]
    /\ ipc' = [ipc EXCEPT ![u] = "stage"]
    /\ UNCHANGED <<attempts, branch, probe, answers, failed, target, resourceUrl>>

\* task(): what invoking the unit's closure does before it first suspends.
\* The caller fixes task' before this is evaluated.
invoke(u, readOk) ==
    IF task'[u] = "ingest"
    THEN attempt(u, 1, readOk)
    ELSE IF task'[u] = "direct"
    THEN uploadDirect(u)
    ELSE UNCHANGED closureVars

\* ------------------------------------------------------------- TaskQueue
\* { task, resolve, reject } pushed by add()
QueueItem(u) == [task |-> u, resolve |-> u, reject |-> u]
NoItem == [task |-> 0, resolve |-> 0, reject |-> 0]

\* Mutant of canRun: the limit test off by one.
canRunOffByOne(q, r) == r <= concurrency /\ Len(q) > 0

\* Mutant of canRun: one slot is never handed out.
canRunOneSlotLess(q, r) == r < concurrency - 1 /\ Len(q) > 0

\* this.running < this.concurrency && this.queue.length > 0
canRun(q, r) == r < concurrency /\ Len(q) > 0

\* Mutant of shift: pop() takes the newest item instead of the oldest.
pop(q) == [head |-> q[Len(q)], rest |-> SubSeq(q, 1, Len(q) - 1)]

\* this.queue.shift()
shift(q) == [head |-> Head(q), rest |-> Tail(q)]

\* runNext(), called with the queue q, the counter r and the phases ph that
\* its caller has just produced.
runNext(q, r, ph, readOk) ==
    IF canRun(q, r)
    THEN LET it == shift(q).head
             u == it.task
         IN  /\ queue' = shift(q).rest
             /\ running' = r + 1
             /\ phase' = [ph EXCEPT ![u] = "started"]
             /\ item' = [item EXCEPT ![u] = it]
             /\ starts' = [starts EXCEPT ![u] = @ + 1]
             /\ started' = Append(started, u)
             /\ invoke(u, readOk)
    ELSE /\ queue' = q
         /\ running' = r
         /\ phase' = ph
         /\ UNCHANGED <<item, starts, started>>
         /\ UNCHANGED closureVars

\* Units are numbered by the order of the add() calls.
NextUnit(u) == phase[u] = "new" /\ \A v \in Units : v < u => phase[v] # "new"

\* Mutant of add: the item is pushed but runNext() is not called.
addNoRunNext(u, kind, readOk) ==
    /\ task' = [task EXCEPT ![u] = kind]
    /\ queue' = Append(queue, QueueItem(u))
    /\ phase' = [phase EXCEPT ![u] = "queued"]
    /\ UNCHANGED <<running, item, starts, started>>
    /\ UNCHANGED closureVars

\* add(task): push the item, then runNext().
add(u, kind, readOk) ==
    /\ task' = [task EXCEPT ![u] = kind]
    /\ runNext(Append(queue, QueueItem(u)), running,
               [phase EXCEPT ![u] = "queued"], readOk)

\* Mutant of settle: the failure is swallowed and the promise resolved.
settleAlwaysResolve(u) ==
    LET h == item[u].resolve
    IN  /\ settles' = [settles EXCEPT ![h] = @ + 1]
        /\ IF promise[h] = "pending"
           THEN /\ promise' = [promise EXCEPT ![h] = "resolved"]
                /\ value' = [value EXCEPT ![h] = u]
           ELSE UNCHANGED <<promise, value>>

\* .then(result => resolve(result)) / .catch(err => reject(err)): the
\* promise of task() has settled and the matching callback of the item runs.
settle(u) ==
    LET h == IF taskResult[u] = "ok" THEN item[u].resolve ELSE item[u].reject
        to == IF taskResult[u] = "ok" THEN "resolved" ELSE "rejected"
    IN  /\ settles' = [settles EXCEPT ![h] = @ + 1]
        /\ IF promise[h] = "pending"
           THEN /\ promise' = [promise EXCEPT ![h] = to]
                /\ value' = [value EXCEPT ![h] = u]
           ELSE UNCHANGED <<promise, value>>

\* Mutant of finallyCallback: the slot is freed but runNext() is not called.
finallyNoRunNext(u, readOk) ==
    /\ queue' = queue
    /\ running' = running - 1
    /\ phase' = [phase EXCEPT ![u] = "released"]
    /\ UNCHANGED <<item, starts, started>>
    /\ UNCHANGED closureVars

\* Mutant of finallyCallback: a unit that failed is pushed back on the queue.
finallyRequeueFailed(u, readOk) ==
    IF taskResult[u] = "err"
    THEN runNext(Append(queue, item[u]), running - 1,
                 [phase EXCEPT ![u] = "queued"], readOk)
    ELSE runNext(queue, running - 1, [phase EXCEPT ![u] = "released"], readOk)

\* Mutant of finallyCallback: runNext() is called but running is not
\* decremented.
finallyNoDecrement(u, readOk) ==
    runNext(queue, running, [phase EXCEPT ![u] = "released"], readOk)

\* .finally(() => { this.running--; this.runNext(); })
finallyCallback(u, readOk) ==
    runNext(queue, running - 1, [phase EXCEPT ![u] = "released"], readOk)

\* ------------------------------------------------- actions, generic queue
\* A caller passes an opaque unit of work to add().
Add(u) ==
    /\ u \in 1..MaxUnits
    /\ NextUnit(u)
    /\ UNCHANGED <<concurrency, taskResult, promise, settles, value, input, response>>
    /\ add(u, "unit", TRUE)

\* A caller passes a unit whose promise never settles; one per behaviour.
AddSlow(u) ==
    /\ u \in 1..MaxUnits
    /\ NextUnit(u)
    /\ \A v \in Units : task[v] # "slow"
    /\ UNCHANGED <<concurrency, taskResult, promise, settles, value, input, response>>
    /\ add(u, "slow", TRUE)

\* The promise of a started opaque unit fulfils.
TaskSucceed(u) ==
    /\ task[u] = "unit" /\ phase[u] = "started"
    /\ phase' = [phase EXCEPT ![u] = "completed"]
    /\ taskResult' = [taskResult EXCEPT ![u] = "ok"]
    /\ UNCHANGED <<queueVars, task, promise, settles, value, item, starts, started,
                   input, closureVars, response>>

\* The promise of a started opaque unit rejects.
TaskFail(u) ==
    /\ task[u] = "unit" /\ phase[u] = "started"
    /\ phase' = [phase EXCEPT ![u] = "completed"]
    /\ taskResult' = [taskResult EXCEPT ![u] = "err"]
    /\ UNCHANGED <<queueVars, task, promise, settles, value, item, starts, started,
                   input, closureVars, response>>

\* The then / catch reaction of runNext's chain.
Deliver(u) ==
    /\ phase[u] = "completed"
    /\ phase' = [phase EXCEPT ![u] = "delivered"]
    /\ settle(u)
    /\ UNCHANGED <<queueVars, task, taskResult, item, starts, started,
                   input, closureVars, response>>

\* The finally reaction of runNext's chain.
Finally(u) ==
    /\ phase[u] = "delivered"
    /\ UNCHANGED <<concurrency, task, taskResult, promise, settles, value, input, response>>
    /\ \E readOk \in BOOLEAN : finallyCallback(u, readOk)

\* --------------------------------------------- processImageUpload, resumed
\* The closure of unit u is suspended at the await named at.
Suspended(u, at) == task[u] = "ingest" /\ phase[u] = "started" /\ ipc[u] = at
\* The task of /enqueue-task for unit u is suspended at the await named at.
DirectSuspended(u, at) == task[u] = "direct" /\ phase[u] = "started" /\ ipc[u] = at

\* The current attempt issues call c and suspends on it.
issue(u, c) ==
    /\ calls' = [calls EXCEPT ![u] = Append(@, c)]
    /\ ipc' = [ipc EXCEPT ![u] = c.op]
    /\ UNCHANGED failed

\* An error is thrown inside processImageUpload: its promise rejects.
throw(u) ==
    /\ ipc' = [ipc EXCEPT ![u] = "thrown"]
    /\ failed' = [failed EXCEPT ![u] = @ + 1]
    /\ UNCHANGED calls

\* What fetch(input, { method: 'HEAD' }) can answer: no response at all
\* (the fetch rejects), a non-success status, a success with a content type
\* that is no image, a success with an image content type.
HeadResponses == {"unreachable", "notOk", "notImage", "image"}
headOk(r) == r \in {"notImage", "image"}
headIsImage(r) == r = "image"

\* Mutant of headRejected: the content type is not looked at.
headRejectedStatusOnly(r) == r = "unreachable" \/ ~headOk(r)

\* The probe makes processImageUpload throw: the fetch rejected,
\* !headResponse.ok, or !contentType.startsWith("image/").
headRejected(r) == r = "unreachable" \/ ~headOk(r) \/ ~headIsImage(r)

\* The HEAD probe answers.
HeadResponse(u) ==
    /\ Suspended(u, "head")
    /\ \E r \in HeadResponses :
        /\ probe' = [probe EXCEPT ![u] = r]
        /\ IF headRejected(r)
           THEN throw(u)
           ELSE issue(u, Call("get", NoRef))
    /\ UNCHANGED <<queueVars, unitVars, input, attempts, branch, answers, target,
                   resourceUrl, response>>

\* fetch(input) and response.buffer(): the fetch rejects, the status is no
\* success, the body cannot be read, or the bytes arrive.
GetResponses == {"unreachable", "notOk", "noBody", "bytes"}
getRejected(r) == r = "unreachable" \/ r = "notOk" \/ r = "noBody"

\* The GET retrieval answers.
GetResponse(u) ==
    /\ Suspended(u, "get")
    /\ \E r \in GetResponses :
        IF getRejected(r)
        THEN throw(u)
        ELSE issue(u, Call("convert", NoRef))
    /\ UNCHANGED <<queueVars, unitVars, input, attempts, branch, probe, answers, target,
                   resourceUrl, response>>

\* convertToJpeg returns or sharp throws; on return uploadMedia is entered
\* and posts the stagedUploadsCreate mutation.
ConvertDone(u) ==
    /\ Suspended(u, "convert")
    /\ \E ok \in BOOLEAN :
        IF ok
        THEN issue(u, Call("stage", NoRef))
        ELSE throw(u)
    /\ UNCHANGED <<queueVars, unitVars, input, attempts, branch, probe, answers, target,
                   resourceUrl, response>>

\* What the stagedUploadsCreate call can answer.  arrives: the fetch and
\* response.json() both return; data: json.data.stagedUploadsCreate is
\* there; userErrors: the length of that list (0 when absent); targets:
\* stagedTargets absent, empty or holding a target; params: the target has
\* its parameters list; ref: the target has a non-empty resourceUrl.
\* A field is present only inside what holds it.
StageResponses ==
    {r \in [arrives : BOOLEAN, data : BOOLEAN, userErrors : 0..1,
            targets : {"absent", "empty", "one"}, params : BOOLEAN, ref : BOOLEAN] :
        /\ ~r.arrives => ~r.data
        /\ ~r.data => r.userErrors = 0 /\ r.targets = "absent"
        /\ r.targets # "one" => ~r.params /\ ~r.ref}

\* Mutant of stageRejected: the userErrors list is not looked at.
stageRejectedIgnoringUserErrors(r) ==
    \/ ~r.arrives
    \/ ~r.data \/ r.targets = "absent"
    \/ r.targets = "empty"
    \/ ~r.params

\* uploadMedia throws on the phase-1 answer.
stageRejected(r) ==
    \/ ~r.arrives
    \/ r.data /\ r.userErrors > 0
    \/ ~r.data \/ r.targets = "absent"
    \/ r.targets = "empty"
    \/ ~r.params

\* The reference phase 1 hands out: a fresh one for every call.
Ref(u, n) == <<u, n>>

\* What a phase-1 answer is, to whoever reads it.
stageKind(r) ==
    IF ~r.arrives THEN "unreachable"
    ELSE IF r.userErrors > 0 THEN "userErrors"
    ELSE IF r.targets # "one" THEN "noTarget"
    ELSE "target"

\* Phase 1 answers; on a target the multipart POST to target.url is sent.
StageResponse(u) ==
    /\ Suspended(u, "stage") \/ DirectSuspended(u, "stage")
    /\ \E r \in StageResponses :
        /\ answers' = [answers EXCEPT ![u].stage = stageKind(r)]
        /\ IF stageRejected(r)
           THEN throw(u) /\ UNCHANGED target
           ELSE /\ target' = [target EXCEPT ![u] =
                                  IF r.ref THEN Ref(u, attempts[u]) ELSE NoRef]
                /\ issue(u, Call("upload", NoRef))
    /\ UNCHANGED <<queueVars, unitVars, input, attempts, branch, probe,
                   resourceUrl, response>>

\* What the upload POST can answer.
UploadResponses == {"unreachable", "notOk", "ok"}
uploadRejected(r) == r = "unreachable" \/ r # "ok"

\* Mutant of uploadMediaResult: the reference the first call obtained is
\* kept and returned by every later call.
uploadMediaReturnsFirstReference(u) == Ref(u, 1)

\* Mutant of uploadMediaResult: the upload address target.url is returned
\* in place of target.resourceUrl.
uploadMediaReturnsUploadUrl(u) == <<u, 0>>

\* return target.resourceUrl
uploadMediaResult(u) == target[u]

\* Phase 2 answers; uploadMedia returns target.resourceUrl, and
\* processImageUpload throws on an empty one or calls attachImageToProduct
\* with it.  The task of /enqueue-task takes whatever uploadMedia returned
\* as its result.
UploadResponse(u) ==
    /\ Suspended(u, "upload") \/ DirectSuspended(u, "upload")
    /\ \E r \in UploadResponses :
        /\ answers' = [answers EXCEPT ![u].upload = r]
        /\ IF uploadRejected(r)
           THEN throw(u) /\ UNCHANGED resourceUrl
           ELSE /\ resourceUrl' = [resourceUrl EXCEPT ![u] = uploadMediaResult(u)]
                /\ IF task[u] = "direct"
                   THEN /\ ipc' = [ipc EXCEPT ![u] = "returned"]
                        /\ UNCHANGED <<calls, failed>>
                   ELSE IF resourceUrl'[u] = NoRef
                   THEN throw(u)
                   ELSE issue(u, Call("attach", resourceUrl'[u]))
    /\ UNCHANGED <<queueVars, unitVars, input, attempts, branch, probe, target,
                   response>>

\* What the productCreateMedia call can answer.  arrives: the fetch and
\* response.json() both return; data: json.data.productCreateMedia is
\* there; mediaUserErrors: the length of that list (0 when absent).
AttachResponses ==
    {r \in [arrives : BOOLEAN, data : BOOLEAN, mediaUserErrors : 0..1] :
        /\ ~r.arrives => ~r.data
        /\ ~r.data => r.mediaUserErrors = 0}

\* attachImageToProduct throws; otherwise it returns true.
attachRejected(r) == ~r.arrives \/ (r.data /\ r.mediaUserErrors > 0)

\* What a phase-3 answer is, to whoever reads it: only an answer that
\* carries the productCreateMedia payload without errors reports success.
attachKind(r) ==
    IF ~r.arrives THEN "unreachable"
    ELSE IF ~r.data THEN "noData"
    ELSE IF r.mediaUserErrors > 0 THEN "mediaUserErrors"
    ELSE "success"

\* Phase 3 answers; on true processImageUpload returns.
AttachResponse(u) ==
    /\ Suspended(u, "attach")
    /\ \E r \in AttachResponses :
        /\ answers' = [answers EXCEPT ![u].attach = attachKind(r)]
        /\ IF attachRejected(r)
           THEN throw(u)
           ELSE /\ ipc' = [ipc EXCEPT ![u] = "returned"]
                /\ UNCHANGED <<calls, failed>>
    /\ UNCHANGED <<queueVars, unitVars, input, attempts, branch, probe, target,
                   resourceUrl, response>>

\* ---------------------------------------------- the closure's retry loop
\* Mutant of exhaustedResult: the last error is thrown again.
exhaustedRethrows == "err"

\* How the closure ends once attempts >= maxAttempts in the catch block:
\* it logs and returns, so its promise fulfils.
exhaustedResult == "ok"

\* The closure ends: the promise of task() settles as r.
finish(u, r) ==
    /\ phase' = [phase EXCEPT ![u] = "completed"]
    /\ taskResult' = [taskResult EXCEPT ![u] = r]
    /\ ipc' = [ipc EXCEPT ![u] = "done"]

\* Mutant of TaskReturn: the return statement is missing, the loop goes on
\* while attempts < maxAttempts.
TaskReturnLoopsOn(u) ==
    /\ Suspended(u, "returned")
    /\ UNCHANGED <<queueVars, task, promise, settles, value, item, starts, started,
                   input, response>>
    /\ IF attempts[u] < maxAttempts
       THEN /\ \E readOk \in BOOLEAN : attempt(u, attempts[u] + 1, readOk)
            /\ UNCHANGED <<phase, taskResult>>
       ELSE /\ finish(u, "ok")
            /\ UNCHANGED <<attempts, branch, calls, probe, answers, failed, target, resourceUrl>>

\* await processImageUpload(...) returned: return; // Success!
TaskReturn(u) ==
    /\ Suspended(u, "returned")
    /\ finish(u, "ok")
    /\ UNCHANGED <<queueVars, task, promise, settles, value, item, starts, started,
                   input, attempts, branch, calls, probe, answers, failed, target,
                   resourceUrl, response>>

\* await processImageUpload(...) threw: the catch block, then the loop test.
TaskCatch(u) ==
    /\ Suspended(u, "thrown")
    /\ UNCHANGED <<queueVars, task, promise, settles, value, item, starts, started,
                   input, response>>
    /\ IF attempts[u] >= maxAttempts
       THEN /\ finish(u, exhaustedResult)
            /\ UNCHANGED <<attempts, branch, calls, probe, answers, failed, target, resourceUrl>>
       ELSE IF attempts[u] < maxAttempts
       THEN /\ \E readOk \in BOOLEAN : attempt(u, attempts[u] + 1, readOk)
            /\ UNCHANGED <<phase, taskResult>>
       ELSE /\ finish(u, "ok")
            /\ UNCHANGED <<attempts, branch, calls, probe, answers, failed, target, resourceUrl>>

\* ------------------------------------------------- POST /upload-image
\* The handler reads the body and awaits enqueueImageUpload, which builds
\* the closure and awaits imageUploadQueue.add(task).
enqueueImageUpload(u, in) ==
    /\ input' = [input EXCEPT ![u] = in]
    /\ UNCHANGED <<concurrency, taskResult, promise, settles, value, response>>
    /\ \E readOk \in BOOLEAN : add(u, "ingest", readOk)

UploadImage(u) ==
    /\ u \in 1..MaxUploads
    /\ NextUnit(u)
    /\ \E in \in Inputs : enqueueImageUpload(u, in)

\* The inputs on which processImageUpload throws before any call is sent:
\* no field, or a string that is neither base64, a file nor a URL.
BurstInputs == {in \in Inputs : ~in.given \/ classify(in) = "invalid"}

\* A burst of requests, more than imageUploadQueue has slots, each with
\* an input of that kind.
UploadImageBurst(u) ==
    /\ u \in 1..MaxUnits
    /\ NextUnit(u)
    /\ \E in \in BurstInputs : enqueueImageUpload(u, in)

\* The handler resumes after the await: 202 when the promise resolved, the
\* catch block's 500 when it rejected.
Respond(u) ==
    /\ task[u] = "ingest"
    /\ promise[u] # "pending"
    /\ response[u] = 0
    /\ response' = [response EXCEPT ![u] = IF promise[u] = "resolved" THEN 202 ELSE 500]
    /\ UNCHANGED <<queueVars, unitVars, input, closureVars>>

\* ------------------------------------------------- POST /enqueue-task
\* const taskQueue = new TaskQueue(2)
taskQueueConcurrency == 2

\* What a request body can carry, and whether fs.readFileSync returns.
Bodies == [filePath : BOOLEAN, productId : BOOLEAN]

\* The handler up to its first suspension.  A missing field or a file that
\* cannot be read throws inside the try block: the catch block answers 500
\* and no task is built.  Otherwise the task is added to taskQueue and the
\* handler awaits its promise.
EnqueueTask(u) ==
    /\ u \in 1..MaxRequests
    /\ NextUnit(u)
    /\ UNCHANGED <<concurrency, taskResult, promise, settles, value, input>>
    /\ \E body \in Bodies, readOk \in BOOLEAN :
        IF ~body.filePath \/ ~body.productId \/ ~readOk
        THEN /\ phase' = [phase EXCEPT ![u] = "refused"]
             /\ response' = [response EXCEPT ![u] = 500]
             /\ UNCHANGED <<running, queue, task, item, starts, started>>
             /\ UNCHANGED closureVars
        ELSE /\ add(u, "direct", TRUE)
             /\ UNCHANGED response

\* await uploadMedia(...) returned: return JSON.stringify(result).
EnqueueTaskReturn(u) ==
    /\ DirectSuspended(u, "returned")
    /\ finish(u, "ok")
    /\ UNCHANGED <<queueVars, task, promise, settles, value, item, starts, started,
                   input, attempts, branch, calls, probe, answers, failed, target,
                   resourceUrl, response>>

\* await uploadMedia(...) threw: the task has no try block, its promise
\* rejects.
EnqueueTaskThrow(u) ==
    /\ DirectSuspended(u, "thrown")
    /\ finish(u, "err")
    /\ UNCHANGED <<queueVars, task, promise, settles, value, item, starts, started,
                   input, attempts, branch, calls, probe, answers, failed, target,
                   resourceUrl, response>>

\* Mutant of enqueueTaskStatus: 202 whatever became of the promise.
enqueueTaskAlwaysAccepted(p) == IF p = "resolved" THEN 202 ELSE 202

\* The status the handler sends once await taskQueue.add(task) is over:
\* 202 after the await returned, the catch block's 500 after it threw.
enqueueTaskStatus(p) == IF p = "resolved" THEN 202 ELSE 500

\* The handler resumes after the await.
EnqueueTaskRespond(u) ==
    /\ task[u] = "direct"
    /\ promise[u] # "pending"
    /\ response[u] = 0
    /\ response' = [response EXCEPT ![u] = enqueueTaskStatus(promise[u])]
    /\ UNCHANGED <<queueVars, unitVars, input, closureVars>>

\* ------------------------------------------------------------------ Init
InitUnits ==
    /\ running = 0
    /\ queue = <<>>
    /\ task = [u \in Units |-> "none"]
    /\ phase = [u \in Units |-> "new"]
    /\ taskResult = [u \in Units |-> "none"]
    /\ promise = [u \in Units |-> "pending"]
    /\ settles = [u \in Units |-> 0]
    /\ value = [u \in Units |-> 0]
    /\ item = [u \in Units |-> NoItem]
    /\ starts = [u \in Units |-> 0]
    /\ started = <<>>
    /\ input = [u \in Units |-> NoInput]
    /\ attempts = [u \in Units |-> 0]
    /\ ipc = [u \in Units |-> "none"]
    /\ branch = [u \in Units |-> "none"]
    /\ calls = [u \in Units |-> <<>>]
    /\ probe = [u \in Units |-> "none"]
    /\ answers = [u \in Units |-> NoAnswers]
    /\ failed = [u \in Units |-> 0]
    /\ target = [u \in Units |-> NoRef]
    /\ resourceUrl = [u \in Units |-> NoRef]
    /\ response = [u \in Units |-> 0]

\* new TaskQueue(n), for any n >= 1 up to the bound.
Init ==
    /\ concurrency \in 1..MaxConcurrency
    /\ InitUnits

Next ==
    \E u \in Units :
        \/ Add(u)
        \/ TaskSucceed(u)
        \/ TaskFail(u)
        \/ Deliver(u)
        \/ Finally(u)

Spec == Init /\ [][Next]_vars

\* export const imageUploadQueue = new TaskQueue(3)
InitIngest ==
    /\ concurrency = imageUploadConcurrency
    /\ InitUnits

NextIngest ==
    \E u \in Units :
        \/ UploadImage(u)
        \/ HeadResponse(u)
        \/ GetResponse(u)
        \/ ConvertDone(u)
        \/ StageResponse(u)
        \/ UploadResponse(u)
        \/ AttachResponse(u)
        \/ TaskReturn(u)
        \/ TaskCatch(u)
        \/ Deliver(u)
        \/ Finally(u)
        \/ Respond(u)

SpecIngest == InitIngest /\ [][NextIngest]_vars

InitDirect ==
    /\ concurrency = taskQueueConcurrency
    /\ InitUnits

NextDirect ==
    \E u \in Units :
        \/ EnqueueTask(u)
        \/ StageResponse(u)
        \/ UploadResponse(u)
        \/ EnqueueTaskReturn(u)
        \/ EnqueueTaskThrow(u)
        \/ Deliver(u)
        \/ Finally(u)
        \/ EnqueueTaskRespond(u)

SpecDirect == InitDirect /\ [][NextDirect]_vars

\* The requests whose first attempt gets as far as attachImageToProduct
\* and fails there: a base64 input, and a first attempt in which the
\* conversion and phases 1 and 2 succeed and phase 3 throws.  The second
\* attempt is left free.
RetryInputs == {in \in Inputs : in.given /\ classify(in) = "base64"}

UploadImageRetry(u) ==
    /\ u \in 1..MaxUploads
    /\ NextUnit(u)
    /\ \E in \in RetryInputs : enqueueImageUpload(u, in)

\* In the first attempt the step leaves the closure suspended at the
\* await named at.
firstAttemptGoes(u, at) == attempts[u] = 1 => ipc'[u] = at

ConvertDoneRetry(u) == ConvertDone(u) /\ firstAttemptGoes(u, "stage")
StageResponseRetry(u) == StageResponse(u) /\ firstAttemptGoes(u, "upload")
UploadResponseRetry(u) == UploadResponse(u) /\ firstAttemptGoes(u, "attach")
AttachResponseRetry(u) == AttachResponse(u) /\ firstAttemptGoes(u, "thrown")

NextRetry ==
    \E u \in Units :
        \/ UploadImageRetry(u)
        \/ ConvertDoneRetry(u)
        \/ StageResponseRetry(u)
        \/ UploadResponseRetry(u)
        \/ AttachResponseRetry(u)
        \/ TaskReturn(u)
        \/ TaskCatch(u)
        \/ Deliver(u)
        \/ Finally(u)
        \/ Respond(u)

SpecRetry == InitIngest /\ [][NextRetry]_vars

NextBurst ==
    \E u \in Units :
        \/ UploadImageBurst(u)
        \/ TaskCatch(u)
        \/ Deliver(u)
        \/ Finally(u)
        \/ Respond(u)

SpecBurst == InitIngest /\ [][NextBurst]_vars

\* Every started unit completes and every promise reaction runs: the event
\* loop runs each ready reaction, and the units are assumed to complete.
Fairness ==
    \A u \in Units :
        /\ WF_vars(TaskSucceed(u) \/ TaskFail(u))
        /\ WF_vars(Deliver(u))
        /\ WF_vars(Finally(u))

SpecLive == Init /\ [][Next]_vars /\ Fairness

\* A queue with at least two slots, one unit that never completes.
InitSlow ==
    /\ concurrency \in 2..MaxConcurrency
    /\ InitUnits

NextSlow ==
    \E u \in Units :
        \/ Add(u)
        \/ AddSlow(u)
        \/ TaskSucceed(u)
        \/ TaskFail(u)
        \/ Deliver(u)
        \/ Finally(u)

SpecSlow == InitSlow /\ [][NextSlow]_vars /\ Fairness

\* ------------------------------------------------------- claims, TaskQueue
\* The units started and not yet completed.
InFlight == {u \in Units : phase[u] = "started"}
\* The units started whose finally reaction has not run.
Holding == {u \in Units : phase[u] \in {"started", "completed", "delivered"}}
Queued == {queue[i].task : i \in 1..Len(queue)}

\* C1: with concurrency limit N >= 1, in every reachable state the number of
\* units started and not yet completed is at most N, whatever the length of
\* the queue.
C1_AtMostNRunning ==
    /\ concurrency >= 1
    /\ Cardinality(InFlight) <= concurrency

\* C1 witness: the limit is reached by units in flight while entries wait.
C1_Witness ==
    /\ concurrency >= 2
    /\ Cardinality(InFlight) = concurrency
    /\ Len(queue) >= 2

\* C2: units are started in exactly the order of the add() calls: the i-th
\* unit started is the i-th unit submitted, so no later unit starts before
\* an earlier one and no entry is skipped or reordered.
C2_StartedInSubmissionOrder ==
    /\ \A i \in 1..Len(started) : started[i] = i
    /\ \A i \in 1..Len(queue) : queue[i].task = Len(started) + i

\* C2 witness: a unit that had to wait behind earlier ones has been started
\* after a completion freed a slot, with another entry still waiting.
C2_Witness ==
    /\ Len(started) >= 3
    /\ Len(started) > concurrency
    /\ Len(queue) >= 1

\* C3: when every started unit completes, every unit passed to add() is
\* eventually started and its promise eventually settled.
C3_EverySubmittedUnitSettles ==
    \A u \in Units :
        (phase[u] # "new") ~> (starts[u] >= 1 /\ promise[u] # "pending")

\* C3 witness: a unit submitted when every slot was taken has been started
\* and its promise settled.
C3_Witness ==
    \E u \in Units :
        /\ u > concurrency + 1
        /\ starts[u] >= 1
        /\ promise[u] # "pending"

\* C4: the promise add() returned is settled at most once, only after its
\* unit has run, and with that unit's own outcome: resolved with the unit's
\* result iff the unit succeeded, rejected with its failure iff it failed.
C4_SettledOnceWithOwnOutcome ==
    \A h \in Units :
        /\ settles[h] <= 1
        /\ promise[h] # "pending" => starts[h] >= 1 /\ taskResult[h] # "none"
        /\ promise[h] = "resolved" => taskResult[h] = "ok" /\ value[h] = h
        /\ promise[h] = "rejected" => taskResult[h] = "err" /\ value[h] = h
        /\ phase[h] \in {"delivered", "released"} =>
               /\ settles[h] = 1
               /\ taskResult[h] = "ok" => promise[h] = "resolved"
               /\ taskResult[h] = "err" => promise[h] = "rejected"

\* C4 witness: one unit's promise has been resolved and another's rejected.
C4_Witness ==
    \E a, b \in Units :
        /\ promise[a] = "resolved"
        /\ promise[b] = "rejected"

\* C5: the queue never retries: a unit is started at most once; once a
\* failed unit's reactions have run its promise is rejected, its slot is
\* given back (the counter counts exactly the units still holding a slot)
\* and the unit is not in the queue again.
C5_NoRetryByQueue ==
    /\ running = Cardinality(Holding)
    /\ \A u \in Units :
        /\ starts[u] <= 1
        /\ starts[u] = 1 => u \notin Queued
        /\ taskResult[u] = "err" /\ phase[u] = "released" => promise[u] = "rejected"

\* C5 witness: a unit failed, its reactions ran, and every slot is free.
C5_Witness ==
    \E u \in Units :
        /\ taskResult[u] = "err"
        /\ phase[u] = "released"
        /\ running = 0

\* ---------------------------------------------------------- claims, ingest
Ingests == {u \in Units : task[u] = "ingest"}
Ended(u) == phase[u] \in {"completed", "delivered", "released"}

\* C6: the unit built by enqueueImageUpload runs processImageUpload at most
\* 2 times; when an attempt has failed the unit makes exactly two, and when
\* the second fails too it ends without raising and without a third.
C6_AtMostTwoAttempts ==
    \A u \in Ingests :
        /\ attempts[u] <= 2
        /\ failed[u] <= attempts[u]
        /\ failed[u] >= 1 /\ ipc[u] # "thrown" => attempts[u] = 2
        /\ Ended(u) =>
               /\ taskResult[u] = "ok"
               /\ failed[u] = 0 => attempts[u] = 1
               /\ failed[u] >= 1 => attempts[u] = 2

\* C6 witness: both attempts failed, the second on a phase-2 upload that
\* did not succeed, and the unit ended with its promise resolved.
C6_Witness ==
    \E u \in Ingests :
        /\ attempts[u] = 2
        /\ failed[u] = 2
        /\ Len(calls[u]) >= 1
        /\ calls[u][Len(calls[u])].op = "upload"
        /\ phase[u] = "released"
        /\ promise[u] = "resolved"

\* C7 (the claim as stated): an unrecognized input is attempted exactly
\* once and never retried.
C7_UnrecognizedNotRetried ==
    \A u \in Ingests :
        branch[u] = "invalid" => attempts[u] <= 1

\* C8: whatever the attempts of an ingest unit do, the promise add()
\* returned resolves and never rejects, and the /upload-image handler never
\* answers 500 for it.
C8_IngestNeverRejects ==
    \A u \in Ingests :
        /\ taskResult[u] # "err"
        /\ promise[u] # "rejected"
        /\ response[u] \in {0, 202}
        /\ phase[u] \in {"delivered", "released"} => promise[u] = "resolved"

\* C8 witness: both attempts failed and the caller was answered 202.
C8_Witness ==
    \E u \in Ingests :
        /\ failed[u] = 2
        /\ promise[u] = "resolved"
        /\ response[u] = 202

\* C9: classification has a fixed precedence, first match winning: the
\* inline marker, then an existing path, then a valid URL, else
\* unrecognized; exactly one case is taken for every combination of the
\* three tests, and the attempt's first call is that case's.
C9_ClassificationPrecedence ==
    \A u \in Ingests :
        attempts[u] >= 1 /\ input[u].given =>
            /\ input[u].b64 => branch[u] = "base64"
            /\ ~input[u].b64 /\ input[u].exists => branch[u] = "file"
            /\ ~input[u].b64 /\ ~input[u].exists /\ input[u].url => branch[u] = "url"
            /\ ~input[u].b64 /\ ~input[u].exists /\ ~input[u].url => branch[u] = "invalid"
            /\ branch[u] = "base64" => calls[u] # <<>> /\ calls[u][1].op = "convert"
            /\ branch[u] = "file" => calls[u] = <<>> \/ calls[u][1].op = "convert"
            /\ branch[u] = "url" => calls[u] # <<>> /\ calls[u][1].op = "head"
            /\ branch[u] = "invalid" => calls[u] = <<>>

\* C9 witness: an input that is an existing path and also parses as a URL
\* was taken as a local file and its bytes handed to the transcoder.
C9_Witness ==
    \E u \in Ingests :
        /\ ~input[u].b64 /\ input[u].exists /\ input[u].url
        /\ branch[u] = "file"
        /\ calls[u] # <<>>

\* C10: in an attempt on a URL whose HEAD probe did not succeed or reported
\* a content type that is no image, the attempt fails and issues nothing
\* after the probe: no GET, no transcoding, no phase 1, 2 or 3.
C10_RejectedProbeStopsAttempt ==
    \A u \in Ingests :
        branch[u] = "url" /\ probe[u] \in {"unreachable", "notOk", "notImage"} =>
            /\ calls[u] = <<Call("head", NoRef)>>
            /\ ipc[u] \in {"thrown", "done"}
            /\ failed[u] = attempts[u]
            /\ target[u] = NoRef
            /\ resourceUrl[u] = NoRef

\* C10 witness: the probe of a second attempt reported a non-image content
\* type and the attempt has failed.
C10_Witness ==
    \E u \in Ingests :
        /\ branch[u] = "url"
        /\ probe[u] = "notImage"
        /\ attempts[u] = 2
        /\ ipc[u] = "thrown"

\* C11: for an existing local file whose first attempt succeeds, the attempt
\* makes exactly one phase-1 call, then one phase-2 call, then one phase-3
\* call, in that order, after one transcoding; phase 3 is given the very
\* reference phase 1 returned; and the unit's promise is resolved once.
C11_LocalFileOnePass ==
    \A u \in Ingests :
        branch[u] = "file" /\ attempts[u] = 1 /\ ipc[u] \in {"returned", "done"} =>
            /\ failed[u] = 0
            /\ target[u] = Ref(u, 1)
            /\ calls[u] = <<Call("convert", NoRef), Call("stage", NoRef),
                            Call("upload", NoRef), Call("attach", target[u])>>
            /\ ipc[u] = "done" => taskResult[u] = "ok"
            /\ phase[u] \in {"delivered", "released"} =>
                   promise[u] = "resolved" /\ settles[u] = 1

\* C11 witness: a local file went through on its first attempt and the
\* unit's promise is resolved.
C11_Witness ==
    \E u \in Ingests :
        /\ branch[u] = "file"
        /\ attempts[u] = 1
        /\ Len(calls[u]) = 4
        /\ phase[u] = "released"
        /\ promise[u] = "resolved"

\* The operations the current attempt has called.
Called(u) == {calls[u][i].op : i \in 1..Len(calls[u])}
\* The current attempt has failed.
AttemptFailed(u) == ipc[u] \in {"thrown", "done"} /\ failed[u] = attempts[u]

\* C12: within an attempt a phase is issued only if the one before it
\* succeeded: a phase-1 answer with user errors, or without a staged target,
\* fails the attempt with no phase 2 and no phase 3; a phase-2 answer that
\* is no success fails it with no phase 3; phase 3 is issued only after
\* phase 2 succeeded in the same attempt.
C12_PhasesGated ==
    \A u \in Ingests :
        /\ answers[u].stage \in {"unreachable", "userErrors", "noTarget"} =>
               /\ AttemptFailed(u)
               /\ "upload" \notin Called(u) /\ "attach" \notin Called(u)
        /\ answers[u].upload \in {"unreachable", "notOk"} =>
               /\ AttemptFailed(u)
               /\ "attach" \notin Called(u)
        /\ "upload" \in Called(u) => answers[u].stage = "target"
        /\ "attach" \in Called(u) =>
               answers[u].stage = "target" /\ answers[u].upload = "ok"

\* C12 witness: phase 1 answered with user errors in a second attempt and
\* the attempt failed there.
C12_Witness ==
    \E u \in Ingests :
        /\ attempts[u] = 2
        /\ answers[u].stage = "userErrors"
        /\ ipc[u] = "thrown"

\* C13 (the claim as stated): whenever the attach operation reports no
\* success (the call fails, the answer lists media user errors, or it
\* carries no payload at all) the attempt is a failed one.
C13_AttachWithoutSuccessFails ==
    \A u \in Ingests :
        answers[u].attach \in {"unreachable", "noData", "mediaUserErrors"} =>
            AttemptFailed(u)

\* C15 (the claim as stated, /upload-image part): a request whose body
\* lacks the input field is answered with 500 and nothing else happens:
\* no unit is handed to imageUploadQueue and no attempt is executed.
C15_MissingFieldRefused ==
    \A u \in Ingests :
        ~input[u].given =>
            /\ phase[u] = "new"
            /\ starts[u] = 0
            /\ attempts[u] = 0
            /\ response[u] \in {0, 500}

\* C16 (the claim as stated): the 202 of /upload-image does not wait for
\* execution: while the submitted unit is still in the queue or still
\* running, the handler is able to send its response.
C16_RespondsBeforeExecution ==
    \A u \in Ingests :
        phase[u] \in {"queued", "started"} /\ response[u] = 0 =>
            ENABLED Respond(u)

\* The units whose finally reaction has run.
Released == {u \in Units : phase[u] = "released"}
\* The units passed to add().
Submitted == {u \in Units : phase[u] # "new"}

\* C17: between scheduling steps, a non-empty queue means that every slot
\* is taken: a free slot and a waiting entry never coexist.
C17_WorkConserving ==
    /\ Len(queue) > 0 => running = concurrency
    /\ running < concurrency => queue = <<>>

\* C17 witness: a completion has freed a slot and the slot was handed to the
\* oldest waiting entry at once, with entries still waiting behind it.
C17_Witness ==
    /\ concurrency >= 2
    /\ Released # {}
    /\ Len(queue) > 0
    /\ running = concurrency

\* C18: the running counter is exact: it is never negative, it counts the
\* units started whose finally reaction has not run, it is 0 when every
\* submitted unit has completed, and every step changes it by one up for
\* each start and one down for each finally reaction.
C18_RunningCounterExact ==
    /\ [](/\ running >= 0
          /\ running = Cardinality(Holding)
          /\ running = Len(started) - Cardinality(Released)
          /\ Submitted # {} /\ Submitted = Released => running = 0)
    /\ [][running' = running + (Len(started') - Len(started))
                     - Cardinality({u \in Units : /\ phase[u] = "delivered"
                                                  /\ phase'[u] = "released"})]_vars

\* C18 witness: more units than slots were submitted, one of them failed,
\* all have completed and the counter is back to 0.
C18_Witness ==
    /\ Cardinality(Submitted) > concurrency
    /\ Submitted = Released
    /\ \E u \in Units : taskResult[u] = "err"
    /\ running = 0

\* The units submitted through /enqueue-task.
Directs == {u \in Units : task[u] = "direct"}
\* The number of times uploadMedia was called for unit u.
StageCalls(u) == Cardinality({i \in 1..Len(calls[u]) : calls[u][i].op = "stage"})

\* C14: on /enqueue-task the unit is run once and never again; when
\* uploadMedia threw, the unit fails, the promise add() returned is
\* rejected and the response is 500; a 202 is sent only for a unit that
\* succeeded.
C14_DirectFailureIs500 ==
    \A u \in Directs :
        /\ starts[u] <= 1
        /\ StageCalls(u) = starts[u]
        /\ ipc[u] = "done" => (taskResult[u] = "err" <=> failed[u] > 0)
        /\ taskResult[u] = "err" /\ phase[u] \in {"delivered", "released"} =>
               /\ promise[u] = "rejected"
               /\ response[u] \in {0, 500}
               /\ response[u] = 0 => ENABLED EnqueueTaskRespond(u)
        /\ response[u] = 500 => promise[u] = "rejected"
        /\ response[u] = 202 =>
               /\ taskResult[u] = "ok" /\ failed[u] = 0
               /\ promise[u] = "resolved"

\* C14 witness: uploadMedia threw on the phase-2 answer, the promise was
\* rejected, the slot released and the request answered 500, after one call
\* of uploadMedia.
C14_Witness ==
    \E u \in Directs :
        /\ answers[u].upload = "notOk"
        /\ phase[u] = "released"
        /\ promise[u] = "rejected"
        /\ response[u] = 500
        /\ StageCalls(u) = 1

\* C19: with at least two slots, a unit that stays running for ever
\* keeps its slot and starves nobody: when every other started unit
\* completes, every other unit passed to add() is eventually started and
\* its promise settled.
C19_SlowUnitStarvesNobody ==
    /\ [](\A v \in Units :
            task[v] = "slow" /\ starts[v] >= 1 => phase[v] = "started")
    /\ \A u \in Units :
           (task[u] = "unit") ~> (starts[u] >= 1 /\ promise[u] # "pending")

\* C19 witness: while the slow unit is running, a unit that was submitted
\* after it, when every slot was taken, has been started and settled.
C19_Witness ==
    \E v, u \in Units :
        /\ task[v] = "slow" /\ phase[v] = "started"
        /\ u > v /\ u > concurrency + 1
        /\ task[u] = "unit" /\ starts[u] >= 1 /\ promise[u] # "pending"

\* The ingest units with an attempt in progress or between two attempts.
Attempting == {u \in Ingests : attempts[u] >= 1 /\ ipc[u] # "done"}

\* C20: an ingest unit holds one slot of imageUploadQueue from its start
\* until its closure ends: every unit that is in an attempt, or between its
\* two attempts, is a started unit counted by running, at most 3 of them at
\* once; the step from a failed attempt 1 to attempt 2 leaves the counter,
\* the queue and the list of started units as they are.
C20_SlotHeldAcrossRetry ==
    /\ [](/\ Attempting = {u \in Ingests : phase[u] = "started"}
          /\ Attempting \subseteq Holding
          /\ running = Cardinality(Holding)
          /\ Cardinality(Attempting) <= 3
          /\ running <= 3)
    /\ [][\A u \in Units :
            attempts'[u] > attempts[u] /\ attempts[u] >= 1 =>
                /\ ipc[u] = "thrown"
                /\ phase[u] = "started" /\ phase'[u] = "started"
                /\ running' = running
                /\ queue' = queue
                /\ started' = started]_vars

\* C20 witness: three units hold the three slots, one of them is in its
\* second attempt, and a fourth is waiting in the queue.
C20_Witness ==
    /\ Cardinality(Attempting) = 3
    /\ running = 3
    /\ \E u \in Attempting : attempts[u] = 2
    /\ Len(queue) >= 1

Succeeded(u) == ipc[u] \in {"returned", "done"} /\ failed[u] < attempts[u]

\* C22: once an attempt of an ingest unit has succeeded the unit makes no
\* further attempt and no further remote call: at most one attempt of a
\* unit succeeds; a second attempt exists only after a first that failed;
\* in a unit that has succeeded, the attach call that was answered with
\* success is the only attach call of the attempt and the last call made.
C22_NothingAfterSuccess ==
    \A u \in Ingests :
        /\ attempts[u] - failed[u] \in {0, 1}
        /\ attempts[u] = 2 => failed[u] >= 1
        /\ answers[u].attach \in {"success", "noData"} => Succeeded(u)
        /\ Succeeded(u) =>
               /\ failed[u] = attempts[u] - 1
               /\ answers[u].attach \in {"success", "noData"}
               /\ calls[u][Len(calls[u])].op = "attach"
               /\ Cardinality({i \in 1..Len(calls[u]) : calls[u][i].op = "attach"}) = 1
               /\ ipc[u] = "done" => taskResult[u] = "ok"

\* C22 witness: a URL input whose first attempt succeeded: the unit ended
\* after one attempt and one attach call, and the request was answered.
C22_Witness ==
    \E u \in Ingests :
        /\ branch[u] = "url"
        /\ attempts[u] = 1 /\ failed[u] = 0
        /\ answers[u].attach = "success"
        /\ phase[u] = "released"
        /\ response[u] = 202

====
